---- MODULE Spec2Model ----
(***************************************************************************)
(* Model of the anime news bot (src/animebot.py): one run of run_once is   *)
(* fetch -> filter against the ledger -> concurrent enrichment -> ordered  *)
(* publishing with a ledger write after each successful delivery.          *)
(* The ledger file, the feed document, the HTTP outcomes and the outcome   *)
(* of every file write are inputs chosen by the environment.               *)
(***************************************************************************)
EXTENDS Integers, Sequences, FiniteSets, TLC

\* ---------------------------------------------------------------- bounds
MaxFeed == 2
MaxRuns == 2
MaxPad == 2          \* whitespace characters around a paragraph's text
MaxSpecial == 1      \* characters that escape_html rewrites, per text
LongTitle == 700     \* title lengths that push a caption over the limit
HugeTitle == 980
MaxPool == 4         \* entries handed to the worker pool at once
MaxTitleLen == 2     \* characters of a title of the legacy variant
MaxLegacyFeed == 2   \* cards of a homepage read by the legacy variant
MaxIter == 2         \* iterations of the legacy variant's loop

\* ------------------------------------------------------ program constants
FETCH_ATTEMPTS == 3
DETAIL_ATTEMPTS == 3
MAX_WORKERS == 3
SUMMARY_LIMIT == 300
CAPTION_LIMIT == 1024
CAPTION_RESERVE == 50
RULE_LENGTH == 17

Range(s) == {s[i] : i \in 1..Len(s)}

TitleOrder == <<"A", "B">>
Titles == Range(TitleOrder)

\* ----------------------------------------------------------------- state
VARIABLES
    file,        \* posted_titles.json: [kind, items]
    run,         \* number of runs of run_once started so far
    pc,          \* position of the main thread
    fetchTry,    \* attempts of fetch_anime_news made in this run (tenacity)
    news_list,   \* the list run_once holds, entries mutated in place
    units,       \* the futures of fetch_selected_articles, in submission order
    cur,         \* index of the future being collected / the entry being published
    posted0,     \* posted_titles as read by fetch_selected_articles in this run
    attempts,    \* history: delivery attempts of this run, in the order made
    delivered,   \* history: the titles delivered successfully, over all runs
    fileStart,   \* history: the ledger file as it was when this run started
    prevNews,    \* history: titles of the list the previous run fetched
    sameFeed,    \* history: this run fetched the list the previous run fetched
    crashed,     \* history: "no", or the uncaught exception that last ended a run
    fetched,     \* history: how the last attempt of fetch_anime_news ended
    doc,         \* history: the cards that attempt parsed, until run_once moves on
    probe,       \* what validate_image_url saw for the entry being published
    tpc,         \* text path: "off", "input", "summarized", "formatted"
    title_in,    \* text path: the title of the card
    para,        \* text path: first_paragraph.text of the detail page
    summary,     \* text path: the summary fetch_article_details returns
    caption,     \* text path: the caption send_to_telegram posts
    bot_pc,             \* bot.py: "off", "check" (before an iteration), "loop"
    bot_file,           \* bot.py: the lines of posted_titles.txt
    bot_news_list,      \* bot.py: the titles fetch_anime_news returned
    bot_posted_titles,  \* bot.py: the set check_and_post_news loaded
    bot_cur,            \* bot.py: position of the loop of check_and_post_news
    bot_iter,           \* bot.py: iterations of auto_update started
    bot_posts           \* bot.py, history: the posts made, [title, iter, ok]

runvars == <<file, run, pc, fetchTry, news_list, units, cur, posted0, attempts,
             delivered, fileStart, prevNews, sameFeed, crashed, fetched, doc, probe>>
textvars == <<tpc, title_in, para, summary, caption>>
legvars == <<bot_pc, bot_file, bot_news_list, bot_posted_titles, bot_cur,
             bot_iter, bot_posts>>
vars == <<runvars, textvars, legvars>>

\* ------------------------------------------------------------ the ledger
\* file.kind: "absent", "list" (a JSON list of titles), "corrupt" (not JSON),
\* "dict" (a JSON object, items its keys), "scalar" (a JSON number or null),
\* "unreadable" (open or decoding fails).
\* json.dump(list(titles)): the list holds each title of the set once; the
\* order is the set's iteration order, which no reader depends on.
SetToSeq(S) == LET In(t) == t \in S IN SelectSeq(TitleOrder, In)

\* load_posted_titles raises (TypeError, OSError, UnicodeDecodeError): only
\* json.JSONDecodeError is caught.
LoadRaises(f) == f.kind \in {"scalar", "unreadable"}

\* Mutant: every file is read as an empty ledger.
load_posted_titles_reset(f) == {}

\* load_posted_titles when it returns: set(json.load(file)), or set() for an
\* absent file and for a file json cannot decode.
load_posted_titles(f) ==
    CASE f.kind = "list" -> Range(f.items)
      [] f.kind = "dict" -> Range(f.items)
      [] OTHER -> {}

WriteOutcomes == {"ok", "open_fail", "dump_fail"}

\* save_posted_title: read the set, add the title, rewrite the whole file.
\* Every exception is caught and logged; open(.., "w") truncates the file
\* before json.dump writes it.
save_posted_title(f, title, w) ==
    IF LoadRaises(f) \/ w = "open_fail" THEN f
    ELSE IF w = "dump_fail" THEN [kind |-> "corrupt", items |-> <<>>]
    ELSE [kind |-> "list",
          items |-> SetToSeq(load_posted_titles(f) \cup {title})]

\* ------------------------------------------------------------- the feed
\* A news card of the homepage. Cards that fetch_anime_news drops are kept
\* by the reason only: "notag" (no h3 or no time element), "bad" (datetime
\* that fromisoformat rejects), "old" (not today's date); "noattr" is a time
\* element without a datetime attribute. A card of today carries its title,
\* whether its h3 holds a link and whether it has a lazy-load thumbnail.
DroppedCards == {[date |-> d, title |-> "-", link |-> FALSE, thumb |-> FALSE] :
                    d \in {"notag", "bad", "old", "noattr"}}
TodayCards == [date : {"today"}, title : Titles, link : BOOLEAN, thumb : BOOLEAN]
Cards == DroppedCards \cup TodayCards

RECURSIVE SeqsUpTo(_, _)
SeqsUpTo(S, n) ==
    IF n = 0 THEN {<<>>}
    ELSE LET shorter == SeqsUpTo(S, n - 1)
         IN  shorter \cup {Append(q, x) : q \in {r \in shorter : Len(r) = n - 1}, x \in S}

Docs == SeqsUpTo(Cards, MaxFeed)

\* date_tag["datetime"] on a time element without that attribute raises
\* KeyError, which nothing in fetch_anime_news catches.
DocRaises(d) == \E i \in 1..Len(d) : d[i].date = "noattr"

NewEntry(card) ==
    [title |-> card.title, url |-> card.link, thumb |-> card.thumb,
     enriched |-> FALSE, image |-> "null", summary |-> "unset"]

\* The loop of fetch_anime_news: cards without both tags, with a datetime that
\* does not parse, or of another day are skipped; the rest are appended in
\* document order.
RECURSIVE ParseFeed(_)
ParseFeed(d) ==
    IF d = <<>> THEN <<>>
    ELSE IF Head(d).date = "today"
         THEN <<NewEntry(Head(d))>> \o ParseFeed(Tail(d))
         ELSE ParseFeed(Tail(d))

TitlesOf(list) == [i \in 1..Len(list) |-> list[i].title]

\* ------------------------------------------------------- initial states
LedgerFiles ==
    {[kind |-> k, items |-> <<>>] : k \in {"absent", "corrupt", "scalar", "unreadable"}}
    \cup {[kind |-> "list", items |-> SetToSeq(S)] : S \in SUBSET Titles}
    \cup {[kind |-> "dict", items |-> SetToSeq(S)] : S \in (SUBSET Titles) \ {{}}}

RunInit(files) ==
    /\ file \in files
    /\ run = 1
    /\ pc = "fetch"
    /\ fetchTry = 0
    /\ news_list = <<>>
    /\ units = <<>>
    /\ cur = 0
    /\ posted0 = {}
    /\ attempts = <<>>
    /\ delivered = {}
    /\ fileStart = file
    /\ prevNews = <<>>
    /\ sameFeed = FALSE
    /\ crashed = "no"
    /\ fetched = "none"
    /\ doc = <<>>
    /\ probe = "none"

TextOff ==
    /\ tpc = "off"
    /\ title_in = <<>>
    /\ para = <<>>
    /\ summary = <<>>
    /\ caption = <<>>

\* bot.py is another script: it does not run beside animebot.py.
LegacyOff ==
    /\ bot_pc = "off"
    /\ bot_file = <<>>
    /\ bot_news_list = <<>>
    /\ bot_posted_titles = {}
    /\ bot_cur = 0
    /\ bot_iter = 0
    /\ bot_posts = <<>>

Init == RunInit(LedgerFiles) /\ TextOff /\ LegacyOff

\* ---------------------------------------------------------- run_once
\* One attempt of fetch_anime_news under @retry(stop_after_attempt(3)): a
\* requests.RequestException is caught inside and [] is returned; any other
\* exception leaves the function and tenacity calls it again, raising
\* RetryError out of run_once after the third attempt.
FetchFeed ==
    /\ pc = "fetch"
    /\ fetchTry' = fetchTry + 1
    /\ \/ /\ news_list' = <<>>        \* RequestException: return []
          /\ pc' = "done"
          /\ crashed' = crashed
          /\ sameFeed' = FALSE
          /\ fetched' = "RequestException"
          /\ doc' = <<>>
       \/ \E d \in Docs :
            /\ doc' = d
            /\ IF DocRaises(d)
               THEN /\ news_list' = <<>>
                    /\ pc' = IF fetchTry + 1 < FETCH_ATTEMPTS THEN "fetch" ELSE "crashed"
                    /\ crashed' = IF fetchTry + 1 < FETCH_ATTEMPTS THEN crashed ELSE "RetryError"
                    /\ sameFeed' = FALSE
                    /\ fetched' = "KeyError"
               ELSE /\ news_list' = ParseFeed(d)
                    /\ pc' = IF ParseFeed(d) = <<>> THEN "done" ELSE "submit"
                    /\ crashed' = crashed
                    /\ sameFeed' = (run > 1 /\ TitlesOf(ParseFeed(d)) = prevNews)
                    /\ fetched' = "list"
    /\ prevNews' = IF pc' = "fetch" THEN prevNews ELSE <<>>
    /\ UNCHANGED <<file, run, units, cur, posted0, attempts, delivered, fileStart,
                   probe>>

\* ------------------------------------------- fetch_selected_articles
\* Mutant: no filter against the ledger.
articles_to_fetch_all(list, posted) == [i \in 1..Len(list) |-> i]

\* articles_to_fetch: the positions of the entries whose title is not in
\* posted_titles, in list order.
articles_to_fetch(list, posted) ==
    LET Keep(i) == list[i].title \notin posted
    IN  SelectSeq([i \in 1..Len(list) |-> i], Keep)

\* tries counts the calls made by a unit that is still running; late and ahead
\* are history: the unit was unfinished when its future was collected, and it
\* finished while a unit submitted before it was unfinished.
NewUnit(i) ==
    [idx |-> i, st |-> "queued", tries |-> 0, out |-> "none", late |-> FALSE,
     ahead |-> FALSE]

\* Lines 154-158: read the ledger, filter, submit one future per entry kept.
Submit ==
    /\ pc = "submit"
    /\ IF LoadRaises(file)
       THEN /\ pc' = "crashed"
            /\ crashed' = "ledger"
            /\ UNCHANGED <<units, cur, posted0>>
       ELSE LET todo == articles_to_fetch(news_list, load_posted_titles(file))
            IN  /\ posted0' = load_posted_titles(file)
                /\ units' = [k \in 1..Len(todo) |-> NewUnit(todo[k])]
                /\ cur' = 1
                /\ pc' = IF todo = <<>> THEN "join" ELSE "collect"
                /\ crashed' = crashed
    /\ doc' = <<>>
    /\ UNCHANGED <<file, run, fetchTry, news_list, attempts, delivered,
                   fileStart, prevNews, sameFeed, fetched, probe>>

Running == {k \in 1..Len(units) : units[k].st = "running"}

\* Mutant: a thread of its own for every work item.
UnitStart_unbounded(k) ==
    /\ pc \in {"collect", "join"}
    /\ units[k].st = "queued"
    /\ units' = [units EXCEPT ![k].st = "running"]
    /\ UNCHANGED <<file, run, pc, fetchTry, news_list, cur, posted0, attempts,
                   delivered, fileStart, prevNews, sameFeed, crashed, fetched,
                   doc, probe>>

\* A worker thread of the pool takes the oldest queued work item; the pool
\* never has more than max_workers threads.
UnitStart(k) ==
    /\ pc \in {"collect", "join"}
    /\ units[k].st = "queued"
    /\ \A j \in 1..(k - 1) : units[j].st # "queued"
    /\ Cardinality(Running) < MAX_WORKERS
    /\ units' = [units EXCEPT ![k].st = "running"]
    /\ UNCHANGED <<file, run, pc, fetchTry, news_list, cur, posted0, attempts,
                   delivered, fileStart, prevNews, sameFeed, crashed, fetched,
                   doc, probe>>

\* What one call of the body of fetch_article_details can end in: without an
\* article_url no request is made; with one, the page yields a first
\* paragraph ("page") or none ("nopara"), the request fails with a
\* RequestException that the body catches ("neterr"), or another exception
\* leaves the body ("raise").
DetailOutcomes(entry) ==
    IF entry.url THEN {"page", "nopara", "neterr", "raise"} ELSE {"nourl"}

Ahead(k) == \E j \in 1..(k - 1) : units[j].st # "done"

\* One attempt of fetch_article_details under @retry(stop_after_attempt(3)).
UnitAttempt(k) ==
    /\ pc \in {"collect", "join"}
    /\ units[k].st = "running"
    /\ \E o \in DetailOutcomes(news_list[units[k].idx]) :
         units' = [units EXCEPT ![k] =
            IF o = "raise"
            THEN IF units[k].tries + 1 < DETAIL_ATTEMPTS
                 THEN [@ EXCEPT !.tries = @ + 1]
                 ELSE [@ EXCEPT !.tries = 0, !.st = "done", !.out = "exc",
                                !.ahead = Ahead(k)]
            ELSE [@ EXCEPT !.tries = 0, !.st = "done", !.out = o,
                           !.ahead = Ahead(k)]]
    /\ UNCHANGED <<file, run, pc, fetchTry, news_list, cur, posted0, attempts,
                   delivered, fileStart, prevNews, sameFeed, crashed, fetched,
                   doc, probe>>

\* The {"image", "summary"} a returning call hands back: the image is the
\* card's thumbnail, read before the request is made.
ResultImage(entry) == IF entry.thumb THEN "thumb" ELSE "null"
ResultSummary(out) == IF out = "page" THEN "page" ELSE "default"

\* Lines 160-170: future.result(timeout=10) of the futures in submission
\* order. A finished future hands back its result or raises its exception; an
\* unfinished one may run into the timeout. Every exception degrades the entry.
Collect ==
    /\ pc = "collect"
    /\ cur <= Len(units)
    /\ LET u == units[cur]
           e == news_list[u.idx]
       IN  IF u.st = "done" /\ u.out # "exc"
           THEN /\ news_list' = [news_list EXCEPT ![u.idx] =
                       [e EXCEPT !.enriched = TRUE, !.image = ResultImage(e),
                                 !.summary = ResultSummary(u.out)]]
                /\ units' = units
           ELSE /\ news_list' = [news_list EXCEPT ![u.idx] =
                       [e EXCEPT !.enriched = TRUE, !.image = "null",
                                 !.summary = "failed"]]
                /\ units' = [units EXCEPT ![cur].late = (u.st # "done")]
    /\ cur' = cur + 1
    /\ pc' = IF cur + 1 > Len(units) THEN "join" ELSE "collect"
    /\ UNCHANGED <<file, run, fetchTry, posted0, attempts, delivered,
                   fileStart, prevNews, sameFeed, crashed, fetched, doc, probe>>

\* Leaving the with block: shutdown(wait=True) returns when every work item has
\* finished.
Join ==
    /\ pc = "join"
    /\ \A k \in 1..Len(units) : units[k].st = "done"
    /\ pc' = "publish"
    /\ cur' = 1
    /\ UNCHANGED <<file, run, fetchTry, news_list, units, posted0, attempts,
                   delivered, fileStart, prevNews, sameFeed, crashed, fetched,
                   doc, probe>>

\* ------------------------------------------------- run_once, lines 250-253
\* Mutant: the list is walked from its end.
PublishIndex_reversed(i, n) == n + 1 - i

\* for news in news_list: the entry handled in the i-th iteration.
PublishIndex(i, n) == i

Entry == news_list[PublishIndex(cur, Len(news_list))]

\* The end of an iteration: time.sleep(2), then the next entry or the end of
\* run_once.
NextEntry ==
    /\ cur' = cur + 1
    /\ pc' = IF cur + 1 > Len(news_list) THEN "done" ELSE "publish"

\* validate_image_url: False for no URL, for a RequestException (network
\* error, non-2xx status) and for a content-type that does not start with
\* "image/"; True otherwise.
ProbeOutcomes == {"image", "not_image", "error"}

\* Mutant: any URL passes.
validate_image_url_any(image, p) == image # "null"

validate_image_url(image, p) == image # "null" /\ p = "image"

\* "if image_url and validate_image_url(image_url)": no request is made for an
\* entry without an image.
Probes(image) == IF image = "null" THEN {"none"} ELSE ProbeOutcomes

\* Line 251 and the head of send_to_telegram (lines 174-202): the fresh ledger
\* lookup, the reads news["image"] and news["summary"] (KeyError for an entry
\* that was not enriched), then the choice between photo and text delivery.
Lookup ==
    /\ pc = "publish"
    /\ cur <= Len(news_list)
    /\ IF LoadRaises(file)
       THEN pc' = "crashed" /\ crashed' = "ledger" /\ cur' = cur /\ probe' = probe
       ELSE IF Entry.title \in load_posted_titles(file)
       THEN NextEntry /\ crashed' = crashed /\ probe' = probe
       ELSE IF ~Entry.enriched
       THEN pc' = "crashed" /\ crashed' = "KeyError" /\ cur' = cur /\ probe' = probe
       ELSE /\ \E p \in Probes(Entry.image) :
                 /\ probe' = p
                 /\ pc' = IF validate_image_url(Entry.image, p) THEN "photo" ELSE "text"
            /\ cur' = cur
            /\ crashed' = crashed
    /\ UNCHANGED <<file, run, fetchTry, news_list, units, posted0, attempts,
                   delivered, fileStart, prevNews, sameFeed, fetched, doc>>

Attempt(kind, ok) ==
    [idx |-> PublishIndex(cur, Len(news_list)), title |-> Entry.title,
     kind |-> kind, ok |-> ok]

\* Mutant: the title is saved whatever the post returned.
AfterPost_save_always(kind, ok) == "save"

\* Mutant: a failed sendMessage is tried again.
AfterPost_retry(kind, ok) == IF ok THEN "save" ELSE "text"

\* Where send_to_telegram goes after a post: to save_posted_title after a
\* success; after a failed sendPhoto to sendMessage, after a failed sendMessage
\* out of the function.
AfterPost(kind, ok) ==
    IF ok THEN "save" ELSE IF kind = "photo" THEN "text" ELSE "return"

Post(kind) ==
    \E ok \in BOOLEAN :
        /\ attempts' = Append(attempts, Attempt(kind, ok))
        /\ delivered' = IF ok THEN delivered \cup {Entry.title} ELSE delivered
        /\ IF AfterPost(kind, ok) = "return"
           THEN NextEntry
           ELSE pc' = AfterPost(kind, ok) /\ cur' = cur
        /\ probe' = IF AfterPost(kind, ok) = "text" THEN probe ELSE "none"
        /\ UNCHANGED <<file, run, fetchTry, news_list, units, posted0,
                       fileStart, prevNews, sameFeed, crashed, fetched, doc>>

\* Lines 203-220: sendPhoto, raise_for_status.
PhotoPost == pc = "photo" /\ Post("photo")

\* Lines 223-238: sendMessage, raise_for_status.
TextPost == pc = "text" /\ Post("text")

\* Lines 216 and 235: save_posted_title(title), then back in run_once.
Save ==
    /\ pc = "save"
    /\ \E w \in WriteOutcomes : file' = save_posted_title(file, Entry.title, w)
    /\ NextEntry
    /\ UNCHANGED <<run, fetchTry, news_list, units, posted0, attempts,
                   delivered, fileStart, prevNews, sameFeed, crashed, fetched,
                   doc, probe>>

\* The next scheduled run of the script, a new process: the ledger file is
\* all that is carried over.
NextRun ==
    /\ pc \in {"done", "crashed"}
    /\ run < MaxRuns
    /\ run' = run + 1
    /\ pc' = "fetch"
    /\ fetchTry' = 0
    /\ news_list' = <<>>
    /\ units' = <<>>
    /\ cur' = 0
    /\ posted0' = {}
    /\ attempts' = <<>>
    /\ fileStart' = file
    /\ prevNews' = TitlesOf(news_list)
    /\ sameFeed' = FALSE
    /\ fetched' = "none"
    /\ doc' = <<>>
    /\ UNCHANGED <<file, delivered, crashed, probe>>

\* A step of the process that executes run_once.
RunStep ==
    \/ FetchFeed /\ UNCHANGED <<textvars, legvars>>
    \/ Submit /\ UNCHANGED <<textvars, legvars>>
    \/ \E k \in 1..Len(units) : UnitStart(k) /\ UNCHANGED <<textvars, legvars>>
    \/ \E k \in 1..Len(units) : UnitAttempt(k) /\ UNCHANGED <<textvars, legvars>>
    \/ Collect /\ UNCHANGED <<textvars, legvars>>
    \/ Join /\ UNCHANGED <<textvars, legvars>>
    \/ Lookup /\ UNCHANGED <<textvars, legvars>>
    \/ PhotoPost /\ UNCHANGED <<textvars, legvars>>
    \/ TextPost /\ UNCHANGED <<textvars, legvars>>
    \/ Save /\ UNCHANGED <<textvars, legvars>>

Next ==
    \/ RunStep
    \/ NextRun /\ UNCHANGED <<textvars, legvars>>

Spec == Init /\ [][Next]_vars

\* One run of the script. The interpreter keeps executing the main thread and
\* the worker threads, every request carries a timeout and every wait of
\* tenacity is at most 10 s: a step that can be taken is taken.
SpecLive == Init /\ [][RunStep]_vars /\ WF_vars(RunStep)

\* ------------------------------------------------- the pool under load
\* run_once after fetch_anime_news has returned more entries than the pool
\* has workers: n cards, one of them with a thumbnail and a link to a detail
\* page.
PoolCard(link) == [date |-> "today", title |-> "A", link |-> link, thumb |-> link]
PoolLists ==
    {[i \in 1..n |-> NewEntry(PoolCard(i = linked))] : linked \in 1..MaxPool, n \in 1..MaxPool}

PoolInit ==
    /\ file = [kind |-> "list", items |-> <<>>]
    /\ run = 1
    /\ pc = "submit"
    /\ fetchTry = 1
    /\ news_list \in PoolLists
    /\ units = <<>>
    /\ cur = 0
    /\ posted0 = {}
    /\ attempts = <<>>
    /\ delivered = {}
    /\ fileStart = file
    /\ prevNews = <<>>
    /\ sameFeed = FALSE
    /\ crashed = "no"
    /\ fetched = "list"
    /\ doc = <<>>
    /\ probe = "none"
    /\ TextOff
    /\ LegacyOff

PoolNext ==
    \/ Submit /\ UNCHANGED <<textvars, legvars>>
    \/ \E k \in 1..Len(units) : UnitStart(k) /\ UNCHANGED <<textvars, legvars>>
    \/ \E k \in 1..Len(units) : UnitAttempt(k) /\ UNCHANGED <<textvars, legvars>>
    \/ Collect /\ UNCHANGED <<textvars, legvars>>
    \/ Join /\ UNCHANGED <<textvars, legvars>>
    \/ Lookup /\ UNCHANGED <<textvars, legvars>>
    \/ PhotoPost /\ UNCHANGED <<textvars, legvars>>
    \/ TextPost /\ UNCHANGED <<textvars, legvars>>
    \/ Save /\ UNCHANGED <<textvars, legvars>>

SpecPool == PoolInit /\ [][PoolNext]_vars

\* ------------------------------------------------------------- strings
\* A string is a sequence of runs [c, n]: the character c repeated n >= 1
\* times, adjacent runs holding different characters. Characters that TLA+
\* strings cannot hold are named: "nl" (line feed), "zap", "wave", "bar",
\* "leaf" (one code point each).
Run(c, n) == [c |-> c, n |-> n]

\* a + b of two strings: the runs that meet are merged when they hold the
\* same character.
Cat(a, b) ==
    IF a = <<>> THEN b
    ELSE IF b = <<>> THEN a
    ELSE IF a[Len(a)].c = b[1].c
    THEN SubSeq(a, 1, Len(a) - 1) \o <<Run(b[1].c, a[Len(a)].n + b[1].n)>> \o Tail(b)
    ELSE a \o b

\* The string of a sequence of runs, empty runs allowed.
RECURSIVE Norm(_)
Norm(s) ==
    IF s = <<>> THEN <<>>
    ELSE Cat(IF Head(s).n = 0 THEN <<>> ELSE <<Head(s)>>, Norm(Tail(s)))

RECURSIVE StrLen(_)
StrLen(s) == IF s = <<>> THEN 0 ELSE Head(s).n + StrLen(Tail(s))

\* The string without its first k characters, k >= 0.
RECURSIVE Drop(_, _)
Drop(s, k) ==
    IF s = <<>> \/ k <= 0 THEN s
    ELSE IF Head(s).n > k THEN <<Run(Head(s).c, Head(s).n - k)>> \o Tail(s)
    ELSE Drop(Tail(s), k - Head(s).n)

\* The first k characters, k >= 0.
RECURSIVE Take(_, _)
Take(s, k) ==
    IF s = <<>> \/ k <= 0 THEN <<>>
    ELSE IF Head(s).n >= k THEN <<Run(Head(s).c, k)>>
    ELSE <<Head(s)>> \o Take(Tail(s), k - Head(s).n)

\* Python's s[:k]: a negative k counts from the end.
PySlice(s, k) ==
    IF k >= 0 THEN Take(s, k)
    ELSE IF StrLen(s) + k > 0 THEN Take(s, StrLen(s) + k) ELSE <<>>

Chars(cs) == Norm([i \in 1..Len(cs) |-> Run(cs[i], 1)])

IsSpace(c) == c \in {" ", "nl"}

RECURSIVE LStrip(_)
LStrip(s) == IF s # <<>> /\ IsSpace(Head(s).c) THEN LStrip(Tail(s)) ELSE s

RECURSIVE RStrip(_)
RStrip(s) ==
    IF s # <<>> /\ IsSpace(s[Len(s)].c) THEN RStrip(SubSeq(s, 1, Len(s) - 1)) ELSE s

\* str.strip()
Strip(s) == RStrip(LStrip(s))

RECURSIVE Repeat(_, _)
Repeat(s, n) == IF n = 0 THEN <<>> ELSE s \o Repeat(s, n - 1)

EscapeRun(r) ==
    CASE r.c = "&" -> Repeat(<<Run("&", 1), Run("a", 1), Run("m", 1), Run("p", 1), Run(";", 1)>>, r.n)
      [] r.c = "<" -> Repeat(<<Run("&", 1), Run("l", 1), Run("t", 1), Run(";", 1)>>, r.n)
      [] r.c = ">" -> Repeat(<<Run("&", 1), Run("g", 1), Run("t", 1), Run(";", 1)>>, r.n)
      [] OTHER -> <<r>>

\* escape_html: "" for an empty text, else & < > replaced by their entities.
RECURSIVE escape_html(_)
escape_html(text) ==
    IF text = <<>> THEN <<>>
    ELSE Cat(EscapeRun(Head(text)), escape_html(Tail(text)))

Ellipsis == <<Run(".", 3)>>

\* ----------------------------------- fetch_article_details, line 146
\* get_text(strip=True)[:300] + "..." if len(first_paragraph.text) > 300
\* else first_paragraph.text: the length tested is that of the text as it is,
\* the text cut is the stripped one.
SummaryOf(text) ==
    IF StrLen(text) > SUMMARY_LIMIT
    THEN Cat(PySlice(Strip(text), SUMMARY_LIMIT), Ellipsis)
    ELSE text

\* -------------------------------------- send_to_telegram, lines 174-195
NoSummary == Chars(<<"N", "o", " ", "s", "u", "m", "m", "a", "r", "y", " ",
                     "a", "v", "a", "i", "l", "a", "b", "l", "e">>)
BoldOpen == Chars(<<"<", "b", ">">>)
BoldClose == Chars(<<"<", "/", "b", ">">>)
Signature == Chars(<<"leaf", "|", " ", "@", "T", "h", "e", "A", "n", "i", "m", "e",
                     "T", "i", "m", "e", "s", "_", "a", "c", "n">>)
CaptionRule ==
    <<Run(" ", 1), Run("zap", 1), Run("nl", 1), Run("wave", RULE_LENGTH), Run("nl", 1)>>
CaptionTail ==
    Cat(<<Run("nl", 1), Run("bar", RULE_LENGTH), Run("nl", 1)>>, Signature)

\* The f-string of lines 178-184 and 189-195.
FormatCaption(safe_title, safe_summary) ==
    Cat(Cat(Cat(Cat(BoldOpen, safe_title), Cat(BoldClose, CaptionRule)),
            safe_summary),
        CaptionTail)

SafeSummary(text) == IF text = <<>> THEN NoSummary ELSE escape_html(text)

\* The summary cut again for a caption over the limit.
Retruncate(safe_title, safe_summary) ==
    Cat(PySlice(safe_summary, CAPTION_LIMIT - StrLen(safe_title) - CAPTION_RESERVE),
        Ellipsis)

CaptionOf(title, text) ==
    LET safe_title == escape_html(title)
        safe_summary == SafeSummary(text)
        first == FormatCaption(safe_title, safe_summary)
    IN  IF StrLen(first) > CAPTION_LIMIT
        THEN FormatCaption(safe_title, Retruncate(safe_title, safe_summary))
        ELSE first

\* ---------------------------------------------- the text path's inputs
PadLens == 0..MaxPad
BodyLens == {0, 1} \cup ((SUMMARY_LIMIT - MaxPad - 1)..(SUMMARY_LIMIT + MaxPad))
Paragraphs ==
    {Norm(<<Run(" ", lead), Run("&", amp), Run("a", body), Run(" ", trail)>>) :
        lead \in PadLens, amp \in 0..MaxSpecial, body \in BodyLens, trail \in PadLens}
TitleLens == {1, LongTitle, HugeTitle}
TitleTexts ==
    {Norm(<<Run("<", lt), Run("T", len)>>) : lt \in 0..MaxSpecial, len \in TitleLens}

RunOff ==
    /\ file = [kind |-> "absent", items |-> <<>>]
    /\ run = 0
    /\ pc = "off"
    /\ fetchTry = 0
    /\ news_list = <<>>
    /\ units = <<>>
    /\ cur = 0
    /\ posted0 = {}
    /\ attempts = <<>>
    /\ delivered = {}
    /\ fileStart = file
    /\ prevNews = <<>>
    /\ sameFeed = FALSE
    /\ crashed = "no"
    /\ fetched = "none"
    /\ doc = <<>>
    /\ probe = "none"

TextInit ==
    /\ RunOff
    /\ LegacyOff
    /\ tpc = "input"
    /\ title_in \in TitleTexts
    /\ para \in Paragraphs
    /\ summary = <<>>
    /\ caption = <<>>

\* fetch_article_details finds a first paragraph and returns its summary.
Summarize ==
    /\ tpc = "input"
    /\ summary' = SummaryOf(para)
    /\ tpc' = "summarized"
    /\ UNCHANGED <<title_in, para, caption>>
    /\ UNCHANGED runvars
    /\ UNCHANGED legvars

\* send_to_telegram formats the caption of the entry.
Format ==
    /\ tpc = "summarized"
    /\ caption' = CaptionOf(title_in, summary)
    /\ tpc' = "formatted"
    /\ UNCHANGED <<title_in, para, summary>>
    /\ UNCHANGED runvars
    /\ UNCHANGED legvars

TextNext == Summarize \/ Format

SpecText == TextInit /\ [][TextNext]_vars

\* ------------------------------------------------- the legacy variant
\* src/bot.py: auto_update calls check_and_post_news every 600 s; the ledger
\* is a text file with one title per line.
\* The character class of the pattern; "tick" names the grave accent.
MarkdownSpecial ==
    {"_", "*", "(", ")", "~", "tick", ">", "#", "+", "-", "=", "|", "{", "}", ".", "!"}

EscapeMarkdownRun(r) ==
    IF r.c \in MarkdownSpecial THEN Repeat(<<Run("\\", 1), Run(r.c, 1)>>, r.n) ELSE <<r>>

\* escape_markdown: a backslash before every character of the class.
RECURSIVE escape_markdown(_)
escape_markdown(text) ==
    IF text = <<>> THEN <<>>
    ELSE Cat(EscapeMarkdownRun(Head(text)), escape_markdown(Tail(text)))

\* Titles as fetch_anime_news of bot.py returns them: stripped, not empty.
LegacyChars == {"a", "."}
LegacyTitles ==
    {Chars(cs) : cs \in SeqsUpTo(LegacyChars, MaxTitleLen) \ {<<>>}}
LegacyFeeds == SeqsUpTo(LegacyTitles, MaxLegacyFeed)

\* load_posted_titles of bot.py: set(file.read().splitlines()).
bot_load_posted_titles(lines) == Range(lines)

\* save_posted_title of bot.py: the title and a line feed are appended.
bot_save_posted_title(lines, title) == Append(lines, title)

LegacyInit ==
    /\ RunOff
    /\ TextOff
    /\ bot_pc = "check"
    /\ bot_file \in {<<>>} \cup {<<t>> : t \in LegacyTitles}
    /\ bot_news_list = <<>>
    /\ bot_posted_titles = {}
    /\ bot_cur = 0
    /\ bot_iter = 0
    /\ bot_posts = <<>>

\* check_and_post_news, lines 87-88: fetch the homepage, load the ledger
\* once.
LegacyCheck ==
    /\ bot_pc = "check"
    /\ bot_iter < MaxIter
    /\ bot_iter' = bot_iter + 1
    /\ bot_news_list' \in LegacyFeeds
    /\ bot_posted_titles' = bot_load_posted_titles(bot_file)
    /\ bot_cur' = 1
    /\ bot_pc' = "loop"
    /\ UNCHANGED <<bot_file, bot_posts>>
    /\ UNCHANGED runvars
    /\ UNCHANGED textvars

\* One iteration of the loop of lines 92-99, send_to_telegram included: the
\* raw title is looked up in the set loaded before the loop; a title not
\* found is escaped and posted, and after a status 200 the escaped title is
\* appended to the file.
LegacyPost ==
    /\ bot_pc = "loop"
    /\ bot_cur <= Len(bot_news_list)
    /\ LET raw == bot_news_list[bot_cur]
           title == escape_markdown(raw)
       IN  IF raw \in bot_posted_titles
           THEN UNCHANGED <<bot_file, bot_posts>>
           ELSE \E ok \in BOOLEAN :
                  /\ bot_posts' = Append(bot_posts,
                        [title |-> raw, iter |-> bot_iter, ok |-> ok])
                  /\ bot_file' = IF ok THEN bot_save_posted_title(bot_file, title)
                                 ELSE bot_file
    /\ bot_cur' = bot_cur + 1
    /\ UNCHANGED <<bot_pc, bot_news_list, bot_posted_titles, bot_iter>>
    /\ UNCHANGED runvars
    /\ UNCHANGED textvars

\* The end of check_and_post_news; auto_update sleeps and calls it again.
LegacySleep ==
    /\ bot_pc = "loop"
    /\ bot_cur > Len(bot_news_list)
    /\ bot_pc' = "check"
    /\ UNCHANGED <<bot_file, bot_news_list, bot_posted_titles, bot_cur, bot_iter,
                   bot_posts>>
    /\ UNCHANGED runvars
    /\ UNCHANGED textvars

LegacyNext == LegacyCheck \/ LegacyPost \/ LegacySleep

SpecLegacy == LegacyInit /\ [][LegacyNext]_vars

\* ================================================================ claims
\* The titles a ledger file holds, read off the file itself.
LedgerContent(f) == IF f.kind \in {"list", "dict"} THEN Range(f.items) ELSE {}

LastAttempt == attempts[Len(attempts)]
OkTitles == {attempts[i].title : i \in {j \in 1..Len(attempts) : attempts[j].ok}}
Posted(step) == Len(step) > Len(attempts)

\* C1: over runs that no uncaught exception ended, each title is delivered
\* successfully (photo or text) at most once in total, within a run and
\* across runs.
C1_AtMostOnce ==
    [][(crashed' = "no" /\ Len(attempts') > Len(attempts)
            /\ attempts'[Len(attempts')].ok)
        => attempts'[Len(attempts')].title \notin delivered]_vars

\* C2 as stated: a run that fetches the list the run before it fetched makes
\* no delivery attempt.
C2_SecondRunSilent == (run > 1 /\ sameFeed) => attempts = <<>>

\* C2 as amended: a run that fetches the list the run before it fetched makes
\* no delivery attempt when the ledger file left by that run holds every title
\* of the list.
C2_SecondRunSilentWhenRecorded ==
    (run > 1 /\ sameFeed /\ Range(TitlesOf(news_list)) \subseteq LedgerContent(fileStart))
        => attempts = <<>>

C2_Witness ==
    /\ run > 1 /\ sameFeed /\ pc = "done"
    /\ news_list # <<>>
    /\ Range(TitlesOf(news_list)) \subseteq LedgerContent(fileStart)
    /\ Range(TitlesOf(news_list)) \subseteq delivered
    /\ attempts = <<>>

\* C3: for a title that is in the ledger when the run starts, no enrichment
\* unit is submitted and send_to_telegram is never entered.
C3_Dedup ==
    \A t \in LedgerContent(fileStart) :
        /\ \A k \in 1..Len(units) : news_list[units[k].idx].title # t
        /\ \A i \in 1..Len(attempts) : attempts[i].title # t
        /\ pc \in {"photo", "text", "save"} => Entry.title # t

C3_Witness ==
    /\ pc = "done"
    /\ attempts # <<>>
    /\ \E i \in 1..Len(news_list) : news_list[i].title \in LedgerContent(fileStart)

\* C4: the delivery attempts of a run reach the transport in the order of the
\* fetched list, whatever the order in which the enrichment units finish or
\* time out.
C4_FeedOrder ==
    /\ \A i \in 1..Len(attempts) :
          /\ attempts[i].idx \in 1..Len(news_list)
          /\ attempts[i].title = news_list[attempts[i].idx].title
    /\ \A i, j \in 1..Len(attempts) : i < j => attempts[i].idx <= attempts[j].idx

C4_Witness ==
    /\ pc = "done"
    /\ Len(units) = 2 /\ units[2].ahead
    /\ news_list[1].title # news_list[2].title
    /\ \E i, j \in 1..Len(attempts) :
          i < j /\ attempts[i].idx = 1 /\ attempts[j].idx = 2

\* C5: every title the run has added to the ledger had a delivery that
\* returned success earlier in the run, and save_posted_title is only entered
\* right after a successful post of the entry in hand.
C5_SaveAfterSuccess ==
    /\ (LedgerContent(file) \ LedgerContent(fileStart)) \subseteq OkTitles
    /\ pc = "save" =>
          /\ attempts # <<>>
          /\ LastAttempt.ok
          /\ LastAttempt.idx = cur
          /\ LastAttempt.title = Entry.title

C5_Witness ==
    /\ pc = "done"
    /\ LedgerContent(file) \ LedgerContent(fileStart) # {}

\* C6: a failed text delivery leaves the ledger file as it was and the title
\* out of it, hands control to the next entry of the list (or ends the run),
\* and no entry is posted again after its text delivery failed.
C6_GiveUp ==
    [][Posted(attempts') =>
        LET a == attempts'[Len(attempts')]
        IN  /\ \A i \in 1..Len(attempts) :
                  (attempts[i].kind = "text" /\ ~attempts[i].ok)
                      => attempts[i].idx # a.idx
            /\ (a.kind = "text" /\ ~a.ok) =>
                  /\ file' = file
                  /\ a.title \notin LedgerContent(file')
                  /\ cur' = cur + 1
                  /\ pc' = IF cur' > Len(news_list) THEN "done" ELSE "publish"
                  /\ crashed' = crashed]_vars

C6_Witness ==
    /\ pc = "publish"
    /\ attempts # <<>>
    /\ LastAttempt.kind = "text" /\ ~LastAttempt.ok
    /\ cur = LastAttempt.idx + 1
    /\ LastAttempt.title \notin LedgerContent(file)

\* C7: a caption whose first formatting exceeds 1024 characters is rebuilt
\* to at most 1024 characters, and still starts with the bold escaped title
\* and ends with the channel signature.
C7_CaptionLength ==
    (tpc = "formatted"
        /\ StrLen(FormatCaption(escape_html(title_in), SafeSummary(summary))) > CAPTION_LIMIT)
    => /\ StrLen(caption) <= CAPTION_LIMIT
       /\ Take(caption, 3 + StrLen(escape_html(title_in)) + 4)
             = Cat(Cat(BoldOpen, escape_html(title_in)), BoldClose)
       /\ Drop(caption, StrLen(caption) - StrLen(Signature)) = Signature

\* C8: the summary is the first 300 characters of the paragraph's text
\* followed by "..." when the text is longer than 300 characters, and the
\* text itself otherwise.
C8_TruncationLaw ==
    tpc \in {"summarized", "formatted"} =>
        summary = IF StrLen(para) > SUMMARY_LIMIT
                  THEN Cat(Take(para, SUMMARY_LIMIT), Ellipsis)
                  ELSE para

\* C9: an entry whose detail-page request failed with a transport error
\* reaches the publisher without an image and with a fallback summary, and no
\* photo delivery is attempted for it.
C9_Degradation ==
    \A k \in 1..Len(units) :
        (units[k].out = "neterr" /\ news_list[units[k].idx].enriched) =>
            /\ news_list[units[k].idx].image = "null"
            /\ news_list[units[k].idx].summary \in {"default", "failed"}
            /\ \A i \in 1..Len(attempts) :
                  attempts[i].idx = units[k].idx => attempts[i].kind = "text"

\* C10: no ledger lookup raises an error that ends the run, and the lookup of
\* fetch_selected_articles yields the empty set for an absent, a corrupt and
\* an unreadable file.
C10_LedgerNeverFatal ==
    /\ crashed # "ledger"
    /\ (pc \in {"collect", "join"}
            /\ fileStart.kind \in {"absent", "corrupt", "unreadable"})
          => posted0 = {}

\* C11: a feed fetch that fails with a network or HTTP-status error is
\* attempted again; fetch_anime_news returns the empty list for such an error
\* only when all 3 attempts have been made, and run_once then ends without an
\* error.
C11_RetryBeforeEmpty ==
    (fetched = "RequestException" /\ pc # "fetch") =>
        /\ fetchTry = FETCH_ATTEMPTS
        /\ news_list = <<>>
        /\ pc = "done"

\* The future of unit k has been collected by the loop of lines 160-170.
Collected(k) == pc # "collect" \/ k < cur

\* C12: an exception of any kind in the enrichment unit of an entry (a
\* timeout of the wait, an error that exhausts the retries, a network error)
\* leaves that entry with image = null and the failure summary; every other
\* entry holds the result of its own unit, and every entry dispatched is
\* handed on to the publishing stage.
C12_Isolation ==
    \A k \in 1..Len(units) :
        Collected(k) =>
            LET e == news_list[units[k].idx]
            IN  /\ e.enriched
                /\ IF units[k].late \/ units[k].out \in {"exc", "neterr"}
                   THEN e.image = "null" /\ e.summary = "failed"
                   ELSE /\ e.image = ResultImage(e)
                        /\ e.summary = ResultSummary(units[k].out)

\* The cards of a document that are well formed and of today, in document
\* order: what the feed fetch is to return for it.
WellFormed(d) == LET Today(card) == card.date = "today" IN SelectSeq(d, Today)

\* C13: a card whose timestamp cannot be parsed (a value that does not parse,
\* or a time element without a datetime value) is dropped alone: the attempt
\* that parsed the document returns every well-formed entry of today, and the
\* run is not aborted.
C13_DropOnlyBadCard ==
    /\ crashed # "RetryError"
    /\ (doc # <<>> /\ \E i \in 1..Len(doc) : doc[i].date \in {"bad", "noattr"}) =>
          /\ fetched = "list"
          /\ Len(news_list) = Len(WellFormed(doc))
          /\ \A i \in 1..Len(news_list) :
                /\ news_list[i].title = WellFormed(doc)[i].title
                /\ news_list[i].url = WellFormed(doc)[i].link

\* C14: a photo delivery is attempted exactly when the entry has an image and
\* the probe of validate_image_url saw an image; when there is no image or the
\* probe failed or saw another content type, the photo is skipped and the one
\* text delivery is the entry's first attempt; a text delivery follows a photo
\* attempt only when that attempt failed.
C14_DeliverySelection ==
    [][/\ (pc = "publish" /\ pc' \in {"photo", "text"}) =>
              (pc' = "photo" <=> (Entry.image # "null" /\ probe' = "image"))
       /\ pc = "photo" => (Posted(attempts') /\ attempts'[Len(attempts')].kind = "photo")
       /\ pc = "text" => (Posted(attempts') /\ attempts'[Len(attempts')].kind = "text")
       /\ Posted(attempts') =>
              LET a == attempts'[Len(attempts')]
                  Earlier == {i \in 1..Len(attempts) : attempts[i].idx = a.idx}
              IN  IF a.kind = "photo"
                  THEN Entry.image # "null" /\ probe = "image" /\ Earlier = {}
                  ELSE IF Entry.image # "null" /\ probe = "image"
                  THEN /\ Cardinality(Earlier) = 1
                       /\ \A i \in Earlier :
                             attempts[i].kind = "photo" /\ ~attempts[i].ok
                  ELSE Earlier = {}]_vars

C14_Witness ==
    /\ pc = "text"
    /\ Entry.image # "null" /\ probe = "not_image"
    /\ \E i \in 1..Len(attempts) : attempts[i].kind = "photo" /\ attempts[i].ok

\* C15: the set of titles a ledger read returns never loses a title from one
\* read to the next, also across a save_posted_title whose write fails.
C15_LedgerMonotone ==
    [][(~LoadRaises(file) /\ ~LoadRaises(file')) =>
          load_posted_titles(file) \subseteq load_posted_titles(file')]_vars

\* C16: when send_to_telegram has returned, every title it delivered in this
\* run is in the ledger file, once.
C16_DeliveredIsRecorded ==
    pc \in {"publish", "done"} =>
        \A t \in OkTitles :
            /\ file.kind = "list"
            /\ Cardinality({i \in 1..Len(file.items) : file.items[i] = t}) = 1

\* C19: the publisher is entered only for an entry that holds the image and
\* the summary of the enrichment stage: every title of the list that the
\* ledger read of fetch_selected_articles held is still held by the ledger the
\* publishing loop reads, so no entry that was left out of the enrichment is
\* found absent later.
C19_PublishedWereEnriched ==
    /\ crashed # "KeyError"
    /\ pc \in {"photo", "text", "save"} =>
          (Entry.enriched /\ Entry.summary # "unset")
    /\ (pc \in {"publish", "photo", "text", "save", "done"} /\ news_list # <<>>
            /\ ~LoadRaises(file)) =>
          (posted0 \cap Range(TitlesOf(news_list))) \subseteq load_posted_titles(file)

\* The stages of run_once in the order the run goes through them.
Stage(p) ==
    CASE p = "fetch" -> 1
      [] p = "submit" -> 2
      [] p \in {"collect", "join"} -> 3
      [] p \in {"publish", "photo", "text", "save"} -> 4
      [] p = "done" -> 5
      [] OTHER -> 0        \* ended by an uncaught exception: not a stage

\* C17: every run reaches the end of run_once, whatever the feed, the
\* transport, the parsing and the ledger do; the stages follow one another in
\* the order fetching, filtering, enriching, publishing, done, none is entered
\* again, and no retry loop makes more than 3 attempts.
C17_RunReachesDone ==
    /\ <>(pc = "done")
    /\ [][pc' # "crashed" => Stage(pc') >= Stage(pc)]_vars
    /\ [](/\ fetchTry <= FETCH_ATTEMPTS
          /\ \A k \in 1..Len(units) : units[k].tries < DETAIL_ATTEMPTS)

\* C18: no delivery is attempted before the future of every dispatched unit
\* has been collected, as finished or as timed out; at most 3 units run at the
\* same time however many entries were dispatched; and an entry whose unit
\* was marked as timed out keeps image = null and the failure summary when
\* the unit finishes later.
C18_EnrichmentBarrier ==
    /\ Cardinality(Running) <= MAX_WORKERS
    /\ (attempts # <<>> \/ pc \in {"publish", "photo", "text", "save"}) =>
          \A k \in 1..Len(units) :
              Collected(k) /\ (units[k].st = "done" \/ units[k].late)
    /\ \A k \in 1..Len(units) :
          units[k].late =>
              /\ news_list[units[k].idx].image = "null"
              /\ news_list[units[k].idx].summary = "failed"

C18_Witness ==
    /\ Len(units) > MAX_WORKERS
    /\ Cardinality(Running) = MAX_WORKERS
    /\ \E k \in 1..Len(units) : units[k].st = "queued"
    /\ \E k \in 1..Len(units) : units[k].late /\ news_list[units[k].idx].thumb

\* C20: in bot.py a title that was posted with success is skipped by every
\* later iteration of check_and_post_news: the line save_posted_title wrote
\* for it is the key the loop looks up.
C20_PostedIsSkipped ==
    \A i \in 1..Len(bot_posts) :
        bot_posts[i].ok =>
            /\ bot_posts[i].title \in bot_load_posted_titles(bot_file)
            /\ \A j \in 1..Len(bot_posts) :
                  bot_posts[j].iter > bot_posts[i].iter
                      => bot_posts[j].title # bot_posts[i].title

====
